---- MODULE Spec2Model ----
(***************************************************************************)
(* A model of the MGit mobile bridge: the exported functions Clone and     *)
(* SimpleAdd (Help and TestLogging as the other bridge calls), the clone   *)
(* flow of clone.go, the filesystem it writes to and the HTTP requests it  *)
(* issues.                                                                 *)
(*                                                                         *)
(* clone.go holds two definitions of the clone flow (lines 16-218 and      *)
(* lines 235-469).  Which of the two a build contains is not decided by    *)
(* the source, so the model carries both: `variant` is chosen in Init and  *)
(* never changes.                                                          *)
(*                                                                         *)
(* Strings that the code takes apart (URLs, JSON bodies) are sequences of  *)
(* one-character strings; strings that the code only builds (messages,     *)
(* paths' components, file contents) are TLA+ strings.  Str converts the   *)
(* former to the latter.                                                   *)
(***************************************************************************)
EXTENDS Integers, Sequences, FiniteSets, TLC

VARIABLES
    variant,   \* 1: clone.go lines 16-218, 2: clone.go lines 235-469
    fs,        \* the filesystem: path (sequence of components) -> node
    call,      \* per caller: the Clone call in progress or last returned
    bridge,    \* the last return value of SimpleAdd / Help / TestLogging
    infoFailed \* history: the local paths of the calls that failed at repo-info

vars == <<variant, fs, call, bridge, infoFailed>>

(***************************************************************************)
(* Bounds of the model.                                                    *)
(***************************************************************************)
\* width in bits of the scaled-down machine integer of SimpleAdd
IntBits == 3

\* greatest number of parts a URL given to the URL helpers is made of
MaxParts == 5

(***************************************************************************)
(* Strings.                                                                *)
(***************************************************************************)
RECURSIVE Str(_)
Str(s) == IF s = <<>> THEN "" ELSE Head(s) \o Str(Tail(s))

HasSuffix(s, suffix) ==
    /\ Len(s) >= Len(suffix)
    /\ SubSeq(s, Len(s) - Len(suffix) + 1, Len(s)) = suffix

\* strings.TrimSuffix
TrimSuffix(s, suffix) ==
    IF HasSuffix(s, suffix) THEN SubSeq(s, 1, Len(s) - Len(suffix)) ELSE s

\* the last element of strings.Split(s, "/"): what follows the last "/"
RECURSIVE LastSegment(_)
LastSegment(s) ==
    IF s = <<>> THEN <<>>
    ELSE IF s[Len(s)] = "/" THEN <<>>
    ELSE LastSegment(SubSeq(s, 1, Len(s) - 1)) \o <<s[Len(s)]>>

DotGit == <<".", "g", "i", "t">>

\* a variant of extractRepoID that removes ".git" before the "/"
extractRepoIDGitFirst(url) ==
    LastSegment(TrimSuffix(TrimSuffix(url, DotGit), <<"/">>))

extractRepoID(url) ==
    LastSegment(TrimSuffix(TrimSuffix(url, <<"/">>), DotGit))

extractServerBaseURL(url) ==
    LET repoID  == extractRepoID(url)
        baseURL == TrimSuffix(url, <<"/">> \o repoID)
    IN  TrimSuffix(baseURL, repoID)

RECURSIVE Itoa(_)
Itoa(n) ==
    LET d == <<"0", "1", "2", "3", "4", "5", "6", "7", "8", "9">>
    IN  IF n < 10 THEN d[n + 1] ELSE Itoa(n \div 10) \o d[(n % 10) + 1]

(***************************************************************************)
(* JSON: the subset needed for a metadata body.  A value is null, a number *)
(* written with the digit 1, or an array of values.                        *)
(***************************************************************************)
IsWS(c) == c \in {" ", "\n", "\t", "\r"}

RECURSIVE SkipWS(_, _)
SkipWS(s, i) == IF i <= Len(s) /\ IsWS(s[i]) THEN SkipWS(s, i + 1) ELSE i

RECURSIVE NumEnd(_, _)
NumEnd(s, i) == IF i <= Len(s) /\ s[i] = "1" THEN NumEnd(s, i + 1) ELSE i

JNull == [t |-> "null"]
JNum(digits) == [t |-> "num", v |-> digits]
JArr(elems) == [t |-> "arr", v |-> elems]
JFail == [ok |-> FALSE]
JOk(val, next) == [ok |-> TRUE, val |-> val, next |-> next]

RECURSIVE ParseValue(_, _)
RECURSIVE ParseElems(_, _, _)

\* the JSON value that starts at s[i], leading whitespace skipped
ParseValue(s, i) ==
    LET j == SkipWS(s, i)
    IN  IF j > Len(s) THEN JFail
        ELSE IF s[j] = "1" THEN JOk(JNum(SubSeq(s, j, NumEnd(s, j) - 1)), NumEnd(s, j))
        ELSE IF s[j] = "n" THEN
            IF j + 3 <= Len(s) /\ SubSeq(s, j, j + 3) = <<"n", "u", "l", "l">>
            THEN JOk(JNull, j + 4) ELSE JFail
        ELSE IF s[j] = "[" THEN
            LET k == SkipWS(s, j + 1)
            IN  IF k <= Len(s) /\ s[k] = "]" THEN JOk(JArr(<<>>), k + 1)
                ELSE ParseElems(s, k, <<>>)
        ELSE JFail

\* the elements of an array from s[i] on, `acc` holding those already read
ParseElems(s, i, acc) ==
    LET e == ParseValue(s, i)
    IN  IF ~e.ok THEN JFail
        ELSE LET k == SkipWS(s, e.next)
             IN  IF k > Len(s) THEN JFail
                 ELSE IF s[k] = "," THEN ParseElems(s, k + 1, Append(acc, e.val))
                 ELSE IF s[k] = "]" THEN JOk(JArr(Append(acc, e.val)), k + 1)
                 ELSE JFail

\* json.NewDecoder(body).Decode(&mappings), mappings a []interface{}: the
\* first value of the stream, which must be an array or null; what follows
\* the value is not read
DecodeMappings(body) ==
    LET r == ParseValue(body, 1)
    IN  IF r.ok /\ r.val.t \in {"arr", "null"} THEN [ok |-> TRUE, val |-> r.val]
        ELSE JFail

RECURSIVE Indent(_)
Indent(depth) == IF depth = 0 THEN <<>> ELSE <<" ", " ">> \o Indent(depth - 1)

RECURSIVE Marshal(_, _)
RECURSIVE MarshalElems(_, _, _)

\* json.MarshalIndent(v, "", "  ") at nesting depth `depth`
Marshal(v, depth) ==
    IF v.t = "null" THEN <<"n", "u", "l", "l">>
    ELSE IF v.t = "num" THEN v.v
    ELSE IF v.v = <<>> THEN <<"[", "]">>
    ELSE <<"[">> \o MarshalElems(v.v, 1, depth + 1) \o <<"\n">> \o Indent(depth) \o <<"]">>

MarshalElems(elems, i, depth) ==
    IF i > Len(elems) THEN <<>>
    ELSE (IF i > 1 THEN <<",">> ELSE <<>>) \o <<"\n">> \o Indent(depth)
         \o Marshal(elems[i], depth) \o MarshalElems(elems, i + 1, depth)

MarshalIndent(v) == Marshal(v, 0)

\* len(mappings)
MappingsLen(v) == IF v.t = "arr" THEN Len(v.v) ELSE 0

(***************************************************************************)
(* The filesystem.  A path is a sequence of components below the root; fs  *)
(* maps each existing path to a directory or to a file with its content.   *)
(* Every operation yields the set of outcomes [fs, err] the operating      *)
(* system can produce; err = Nil is success.                               *)
(***************************************************************************)
Nil == "<nil>"

Dir == [kind |-> "dir"]
File(data) == [kind |-> "file", data |-> data]

EmptyFS == [p \in {} |-> Dir]

Exists(f, p) == p \in DOMAIN f
IsDir(f, p) == p = <<>> \/ (p \in DOMAIN f /\ f[p].kind = "dir")
IsFile(f, p) == p \in DOMAIN f /\ f[p].kind = "file"
IsPrefix(p, q) == Len(p) <= Len(q) /\ SubSeq(q, 1, Len(p)) = p
Parent(p) == SubSeq(p, 1, Len(p) - 1)

Put(f, p, node) == [q \in DOMAIN f \cup {p} |-> IF q = p THEN node ELSE f[q]]

\* f without p and everything below it
Without(f, p) == [q \in {x \in DOMAIN f : ~IsPrefix(p, x)} |-> f[q]]

\* f without what is below p
Emptied(f, p) == [q \in {x \in DOMAIN f : x = p \/ ~IsPrefix(p, x)} |-> f[q]]

\* f with the first k components of p made directories
WithDirs(f, p, k) ==
    LET new == {SubSeq(p, 1, j) : j \in 1..k}
    IN  [q \in DOMAIN f \cup new |-> IF q \in DOMAIN f THEN f[q] ELSE Dir]

Outcome(f, e) == [fs |-> f, err |-> e]

\* os.Stat(p), as Clone reads it: the error is Nil, "not exist" or another
\* error; an existing path never reports "not exist"
StatOutcomes(f, p) ==
    IF Exists(f, p) THEN {Nil, "permission denied"}
    ELSE {"no such file or directory", "permission denied"}

\* a variant of IsNotExist that takes every failed Stat for a missing path
IsAnyError(e) == e # Nil

\* os.IsNotExist(err)
IsNotExist(e) == e = "no such file or directory"

\* os.MkdirAll(p, 0755): fails on a file in the way, or at the first missing
\* level the system refuses, the levels above it already made
MkdirAllOutcomes(f, p) ==
    IF \E j \in 1..Len(p) : IsFile(f, SubSeq(p, 1, j))
    THEN {Outcome(f, "not a directory")}
    ELSE {Outcome(WithDirs(f, p, Len(p)), Nil)}
         \cup {Outcome(WithDirs(f, p, j - 1), "permission denied") :
                  j \in {i \in 1..Len(p) : ~Exists(f, SubSeq(p, 1, i))}}

\* os.WriteFile(p, data, 0644): open with create and truncate, then write;
\* a failed write leaves the file truncated
WriteFileOutcomes(f, p, data) ==
    IF ~IsDir(f, Parent(p)) THEN {Outcome(f, "no such file or directory")}
    ELSE IF IsDir(f, p) THEN {Outcome(f, "is a directory")}
    ELSE {Outcome(Put(f, p, File(data)), Nil),
          Outcome(f, "permission denied"),
          Outcome(Put(f, p, File("")), "no space left on device")}

\* os.RemoveAll(p)
RemoveAllOutcomes(f, p) ==
    {Outcome(Without(f, p), Nil)}
    \cup (IF Exists(f, p) THEN {Outcome(f, "permission denied")} ELSE {})

\* git.PlainClone(p, false, options) of go-git: a file at p or a repository
\* already at p is refused; a clone that fails removes what it created when
\* p was missing or empty before (the removal itself may fail)
PlainCloneOutcomes(f, p) ==
    LET gitDir == Append(p, ".git")
        inited == WithDirs(f, gitDir, Len(gitDir))
        empty  == \A q \in DOMAIN f : IsPrefix(p, q) => q = p
        clean  == IF ~Exists(f, p) THEN Without(inited, p)
                  ELSE IF empty THEN Emptied(inited, p)
                  ELSE inited
    IN  IF IsFile(f, p) \/ \E j \in 1..(Len(p) - 1) : IsFile(f, SubSeq(p, 1, j))
        THEN {Outcome(f, "path is not a directory")}
        ELSE IF Exists(f, gitDir) THEN {Outcome(f, "repository already exists")}
        ELSE {Outcome(inited, Nil),
              Outcome(clean, "authentication required"),
              Outcome(inited, "authentication required")}

(***************************************************************************)
(* Errors.  A Go error built with %w is a chain: the contexts added on the *)
(* way up, then the root cause.  The empty chain is the nil error and      *)
(* err.Error() is the concatenation of the chain.                          *)
(***************************************************************************)
NoErr == <<>>
Wrap(context, e) == <<context>> \o e
ErrorText(e) == Str(e)

(***************************************************************************)
(* The inputs of the bridge and the answers of the server.                 *)
(***************************************************************************)
Procs == {"host", "other"}

URLs ==
    { <<>>,
      <<"h", "/", "r">>,
      <<"h", "/", "r", "/">>,
      <<"h", "/", "r", ".", "g", "i", "t">> }

LocalPaths == {"", "a"}

Tokens == {"", "t1", "t2"}

\* RepositoryInfo
NoInfo == [ID |-> "", Name |-> "", Access |-> ""]
RepoInfos ==
    { [ID |-> "r", Name |-> "Repo", Access |-> "read"],
      [ID |-> "x9", Name |-> "other", Access |-> "write"] }

StatusOK == 200

\* what the server (or the network) answers the repo-info request: a
\* transport error, or a status with a body; a body is JSON for a
\* RepositoryInfo or it is not
InfoResponses ==
    { [err |-> "connection refused", status |-> 0, json |-> FALSE, raw |-> "", obj |-> NoInfo],
      [err |-> Nil, status |-> 404, json |-> FALSE, raw |-> "not found", obj |-> NoInfo],
      [err |-> Nil, status |-> StatusOK, json |-> FALSE, raw |-> "<html>", obj |-> NoInfo] }
    \cup { [err |-> Nil, status |-> StatusOK, json |-> TRUE, raw |-> "", obj |-> i] :
             i \in RepoInfos }

NoResponse == [err |-> Nil, status |-> 0, json |-> FALSE, raw |-> "", obj |-> NoInfo]

\* metadata bodies, byte by byte
Bodies ==
    { <<>>,
      <<"1">>,
      <<"[", "1">>,
      <<"n", "u", "l", "l">>,
      <<"[", "]">>,
      <<"[", "1", "]">>,
      <<"[", "\n", " ", " ", "1", "\n", "]">>,
      <<"[", "1", ",", "1", "1", "]", "\n">>,
      <<"[", "[", "1", "]", "]">> }

MetaResponses ==
    { [err |-> "connection refused", status |-> 0, body |-> <<>>],
      [err |-> Nil, status |-> 404, body |-> <<"n", "o">>] }
    \cup { [err |-> Nil, status |-> StatusOK, body |-> b] : b \in Bodies }

\* the filesystems a call may find: nothing, or a directory of the host's
\* at "a" with a file in it
InitialFS ==
    { EmptyFS,
      Put(Put(EmptyFS, <<"a">>, Dir), <<"a", "notes.txt">>, File("host data")) }

(***************************************************************************)
(* The state of a Clone call.                                              *)
(***************************************************************************)
\* NSLog; the pictographs that some messages of clone.go start with are
\* left out
NSLog(message) == "MGitModule: " \o message

\* the CloneResult Clone starts from
NewResult(localPath) ==
    [Success |-> FALSE, Message |-> "", RepoID |-> "", RepoName |-> "",
     LocalPath |-> localPath]

\* pc: the position of the call; url, localPath, token: its arguments;
\* result: the CloneResult; repoInfo, mappings, mappingsJSON, err: the locals
\* of cloneRepository and fetchMGitMetadata; infoResp: the answer to the
\* repo-info request; body: the body of the answer to the metadata request;
\* reqs: the HTTP requests issued;
\* log: the lines logged; trace: the external operations performed, in order;
\* failures: the steps that failed, each with the error its function returned
NewCall(url, localPath, token) ==
    [pc |-> "idle", url |-> url, localPath |-> localPath, token |-> token,
     result |-> NewResult(localPath), repoInfo |-> NoInfo,
     mappings |-> JNull, mappingsJSON |-> "", err |-> NoErr,
     infoResp |-> NoResponse, body |-> <<>>,
     reqs |-> <<>>, log |-> <<>>, trace |-> <<>>, failures |-> <<>>]

Logged(c, lines) == [c EXCEPT !.log = @ \o lines]
Did(c, step) == [c EXCEPT !.trace = Append(@, step)]
FailedAt(c, step, e) == [c EXCEPT !.failures = Append(@, [step |-> step, err |-> e])]

\* Clone's early returns: validation and the destination check
Rejected(c, message) ==
    [Logged(c, <<NSLog("Clone() failed: " \o message)>>) EXCEPT
        !.pc = "done", !.result.Message = message]

\* a variant of CloneFailed whose message is the bare error text
CloneFailedNoPrefix(c, e) ==
    [Logged(c, <<NSLog("Clone() failed: " \o ErrorText(e))>>) EXCEPT
        !.pc = "done", !.err = e,
        !.result.Message = ErrorText(e)]

\* Clone after cloneRepository returned err # nil
CloneFailed(c, e) ==
    [Logged(c, <<NSLog("Clone() failed: " \o ErrorText(e))>>) EXCEPT
        !.pc = "done", !.err = e,
        !.result.Message = "Clone failed: " \o ErrorText(e)]

\* a variant of CloneSucceeded that reports the name the server gave
CloneSucceededServerName(c) ==
    LET repoID == Str(extractRepoID(c.url))
    IN  [Logged(c, <<NSLog("Clone() succeeded: Repository cloned successfully")>>) EXCEPT
            !.pc = "done",
            !.result.Success = TRUE,
            !.result.Message = "Repository cloned successfully",
            !.result.RepoID = repoID,
            !.result.RepoName = c.repoInfo.Name]

\* Clone after cloneRepository returned nil
CloneSucceeded(c) ==
    LET repoID == Str(extractRepoID(c.url))
    IN  [Logged(c, <<NSLog("Clone() succeeded: Repository cloned successfully")>>) EXCEPT
            !.pc = "done",
            !.result.Success = TRUE,
            !.result.Message = "Repository cloned successfully",
            !.result.RepoID = repoID,
            !.result.RepoName = repoID]

\* a variant of ValidationMessage that looks at the token before the path
ValidationMessageTokenFirst(url, localPath, token) ==
    IF url = <<>> THEN "Repository URL cannot be empty"
    ELSE IF token = "" THEN "Authentication token cannot be empty"
    ELSE IF localPath = "" THEN "Local path cannot be empty"
    ELSE ""

\* the first empty argument's message, "" when none is empty
ValidationMessage(url, localPath, token) ==
    IF url = <<>> THEN "Repository URL cannot be empty"
    ELSE IF localPath = "" THEN "Local path cannot be empty"
    ELSE IF token = "" THEN "Authentication token cannot be empty"
    ELSE ""

\* the paths of the clone flow
Destination(c) == <<c.localPath>>
MGitDir(c) == <<c.localPath, ".mgit">>
MappingsDir(c) == <<c.localPath, ".mgit", "mappings">>
MappingsPath(c) == <<c.localPath, ".mgit", "mappings", "hash_mappings.json">>
NostrMappingsPath(c) == <<c.localPath, ".mgit", "nostr_mappings.json">>
ConfigPath(c) == <<c.localPath, ".mgit", "config">>

ApiPrefix == <<"/", "a", "p", "i", "/", "m", "g", "i", "t", "/", "r", "e", "p", "o", "s", "/">>

\* the URL of an endpoint ("info" or "metadata") of the repository at url
EndpointURL(v, url, endpoint) ==
    IF v = 1 THEN Str(url) \o "/" \o endpoint
    ELSE Str(extractServerBaseURL(url)) \o Str(ApiPrefix) \o Str(extractRepoID(url))
         \o "/" \o endpoint

\* http.NewRequest("GET", url, nil) with the Authorization header added
Request(url, token) ==
    [method |-> "GET", url |-> url, Authorization |-> "Bearer " \o token]

Sent(c, req) == [c EXCEPT !.reqs = Append(@, req)]

\* the error of an answer with a status other than 200
StatusError(status, body) ==
    <<"error response from server (status " \o Itoa(status) \o "): " \o body>>

\* a variant of ConfigContent with the id and the name exchanged
ConfigContentSwapped(repoInfo) ==
    "[repository]\n\tid = " \o repoInfo.Name \o "\n\tname = " \o repoInfo.ID
    \o "\n\taccess = " \o repoInfo.Access
    \o "\n\n[mgit]\n\tversion = 1.0\n\tinitialized = true\n"

\* the content of .mgit/config
ConfigContent(repoInfo) ==
    "[repository]\n\tid = " \o repoInfo.ID \o "\n\tname = " \o repoInfo.Name
    \o "\n\taccess = " \o repoInfo.Access
    \o "\n\n[mgit]\n\tversion = 1.0\n\tinitialized = true\n"

(***************************************************************************)
(* Clone and cloneRepository, one action per external operation.  A step   *)
(* that ends the call builds the CloneResult and moves to "done".          *)
(***************************************************************************)
Set(p, c) == call' = [call EXCEPT ![p] = c]

\* the call once Clone is entered: the first log line, the result, the
\* validation
Entered(url, localPath, token) ==
    LET c == Logged(NewCall(url, localPath, token),
                    <<NSLog("Clone(" \o Str(url) \o ", " \o localPath \o ", ***) called")>>)
        message == ValidationMessage(url, localPath, token)
    IN  IF message # "" THEN Rejected(c, message)
        ELSE [c EXCEPT !.pc = "stat"]

\* Clone is entered
CloneBegin(p, url, localPath, token) ==
    /\ call[p].pc \in {"idle", "done"}
    /\ Set(p, Entered(url, localPath, token))
    /\ UNCHANGED <<variant, fs, bridge, infoFailed>>

\* a variant of AfterStat that, when os.Stat fails for another reason than
\* "not exist", waits for a retry that never comes
AfterStatWaiting(c, e) ==
    IF IsNotExist(e) THEN [c EXCEPT !.pc = "mkdir"]
    ELSE IF e = Nil
         THEN Rejected(c, "Destination path already exists: " \o c.localPath)
    ELSE [c EXCEPT !.pc = "stat-failed"]

\* the call once os.Stat(localPath) returned e: anything but "not exist" is
\* taken as an existing path
AfterStat(c, e) ==
    IF ~IsNotExist(e)
    THEN Rejected(c, "Destination path already exists: " \o c.localPath)
    ELSE [c EXCEPT !.pc = "mkdir"]

\* Clone: os.Stat(localPath)
CloneStat(p) ==
    LET c == call[p]
    IN  /\ c.pc = "stat"
        /\ \E e \in StatOutcomes(fs, Destination(c)) : Set(p, AfterStat(c, e))
        /\ UNCHANGED <<variant, fs, bridge, infoFailed>>

\* the call once os.MkdirAll(destination) returned e
AfterMkdir(c0, e) ==
    LET c == Did(c0, "mkdir")
    IN  IF e # Nil
        THEN CloneFailed(FailedAt(c, "mkdir", <<e>>),
                         Wrap("error creating destination directory: ", <<e>>))
        ELSE [Logged(c, <<NSLog("Fetching repository metadata...")>>)
                 EXCEPT !.pc = "info"]

\* cloneRepository: os.MkdirAll(destination)
MkdirDestination(p) ==
    LET c == call[p]
    IN  /\ c.pc = "mkdir"
        /\ \E o \in MkdirAllOutcomes(fs, Destination(c)) :
              /\ fs' = o.fs
              /\ Set(p, AfterMkdir(c, o.err))
        /\ UNCHANGED <<variant, bridge, infoFailed>>

\* the error fetchRepositoryInfo returns for an answer, NoErr for none
\* (http.NewRequest fails on a malformed URL only; the URLs of the model are
\* well-formed)
InfoError(resp) ==
    IF resp.err # Nil THEN Wrap("error making request: ", <<resp.err>>)
    ELSE IF resp.status # StatusOK THEN StatusError(resp.status, resp.raw)
    ELSE IF ~resp.json THEN Wrap("error parsing response: ", <<"invalid character">>)
    ELSE NoErr

\* a variant of AfterInfo that goes on to the git clone after a failed request
AfterInfoContinue(v, failed) ==
    IF v = 1 THEN "clean" ELSE "gitclone"

\* a variant of AfterInfo that asks again after a failed request
AfterInfoRetry(v, failed) ==
    IF failed THEN "info" ELSE IF v = 1 THEN "clean" ELSE "gitclone"

\* the position after fetchRepositoryInfo
AfterInfo(v, failed) ==
    IF failed THEN "done" ELSE IF v = 1 THEN "clean" ELSE "gitclone"

\* a variant of InfoRequested that logs the Authorization header it sends
InfoRequestedLoggingToken(v, c) ==
    LET infoURL == EndpointURL(v, c.url, "info")
    IN  Sent(Did(Logged(c, <<NSLog("Authorization: Bearer " \o c.token)>>), "info"),
             Request(infoURL, c.token))

\* the call once fetchRepositoryInfo is entered: the request is built and sent
InfoRequested(v, c) ==
    LET infoURL == EndpointURL(v, c.url, "info")
        c0 == IF v = 1
              THEN Logged(c, <<NSLog("NEW fetchRepositoryInfo - requesting: " \o infoURL)>>)
              ELSE c
    IN  Sent(Did(c0, "info"), Request(infoURL, c.token))

\* the call once the answer resp has been read
InfoReturned(v, c, resp) ==
    LET e == InfoError(resp)
        r == [c EXCEPT !.infoResp = resp]
    IN  [(IF e # NoErr
          THEN CloneFailed(FailedAt(r, "info", e),
                           Wrap("error fetching repository metadata: ", e))
          ELSE [Logged(r, <<NSLog("Repository: " \o resp.obj.Name
                                  \o ", Access level: " \o resp.obj.Access),
                            NSLog("Cloning Git repository with go-git...")>>)
                   EXCEPT !.repoInfo = resp.obj])
            EXCEPT !.pc = AfterInfo(v, e # NoErr)]

\* a variant of FetchRepositoryInfo that removes the destination when the
\* request fails
FetchRepositoryInfoCleaningUp(p) ==
    LET c == InfoRequested(variant, call[p])
    IN  /\ c.pc = "info"
        /\ \E resp \in InfoResponses :
              /\ Set(p, InfoReturned(variant, c, resp))
              /\ infoFailed' = IF InfoError(resp) # NoErr
                               THEN infoFailed \cup {c.localPath} ELSE infoFailed
              /\ fs' = IF InfoError(resp) # NoErr
                       THEN Without(fs, Destination(c)) ELSE fs
        /\ UNCHANGED <<variant, bridge>>

\* cloneRepository: fetchRepositoryInfo(url, token)
FetchRepositoryInfo(p) ==
    LET c == InfoRequested(variant, call[p])
    IN  /\ c.pc = "info"
        /\ \E resp \in InfoResponses :
              /\ Set(p, InfoReturned(variant, c, resp))
              /\ infoFailed' = IF InfoError(resp) # NoErr
                               THEN infoFailed \cup {c.localPath} ELSE infoFailed
        /\ UNCHANGED <<variant, fs, bridge>>

\* the call once os.RemoveAll(destination) returned e: a failure is only
\* logged
AfterClean(c0, e) ==
    LET c == Logged(Did(c0, "clean"),
                    <<NSLog("Starting Git clone: " \o Str(c0.url) \o " -> "
                            \o c0.localPath)>>)
    IN  [(IF e # Nil
          THEN Logged(c, <<NSLog("Warning: Failed to clean destination: " \o e)>>)
          ELSE c)
            EXCEPT !.pc = "gitclone"]

\* gitCloneWithGoGit of lines 54-60: os.RemoveAll(destination)
GitCloneClean(p) ==
    LET c == call[p]
    IN  /\ c.pc = "clean"
        /\ variant = 1
        /\ \E o \in RemoveAllOutcomes(fs, Destination(c)) :
              /\ fs' = o.fs
              /\ Set(p, AfterClean(c, o.err))
        /\ UNCHANGED <<variant, bridge, infoFailed>>

\* what gitCloneWithGoGit logs and returns around git.PlainClone
GitCloneStartLog(v, c) ==
    IF v = 1 THEN <<>>
    ELSE <<NSLog("Cloning from: " \o Str(extractServerBaseURL(c.url)) \o Str(ApiPrefix)
                 \o Str(extractRepoID(c.url))),
           NSLog("Destination: " \o c.localPath)>>

GitCloneError(v, e) ==
    IF v = 1 THEN Wrap("error cloning repository: ", <<e>>)
    ELSE Wrap("error cloning repository with go-git: ", <<e>>)

GitCloneFailLog(v, e) ==
    IF v = 1 THEN <<NSLog("Git clone failed: " \o e)>>
    ELSE <<NSLog("Clone failed with error: " \o e)>>

\* lines 308-330 log HEAD and the worktree status, which the model leaves
\* out of the log: they are data of the cloned repository; repo.Worktree()
\* fails for a bare repository only, which PlainClone(_, false, _) never
\* makes
GitCloneDoneLog == <<NSLog("Git clone completed successfully")>>

\* the call once git.PlainClone returned e
AfterGitClone(v, c0, e) ==
    LET c == Logged(Did(c0, "gitclone"), GitCloneStartLog(v, c0))
    IN  IF e # Nil
        THEN CloneFailed(
                 FailedAt(Logged(c, GitCloneFailLog(v, e)),
                          "gitclone", GitCloneError(v, e)),
                 Wrap("error cloning Git repository: ", GitCloneError(v, e)))
        ELSE [Logged(c, GitCloneDoneLog \o <<NSLog("Setting up MGit metadata...")>>)
                 EXCEPT !.pc = "metadata"]

\* cloneRepository: gitCloneWithGoGit(url, destination, token), from
\* git.PlainClone on
GitClone(p) ==
    LET c == call[p]
    IN  /\ c.pc = "gitclone"
        /\ \E o \in PlainCloneOutcomes(fs, Destination(c)) :
              /\ fs' = o.fs
              /\ Set(p, AfterGitClone(variant, c, o.err))
        /\ UNCHANGED <<variant, bridge, infoFailed>>

\* a variant of MetadataFailed that returns the error to Clone
MetadataFailedFatal(c, step, e) ==
    CloneFailed(FailedAt(c, step, e), Wrap("error fetching MGit metadata: ", e))

\* cloneRepository after fetchMGitMetadata returned err # nil: a warning is
\* logged and the flow goes on to the configuration
MetadataFailed(c, step, e) ==
    [Logged(FailedAt(c, step, e),
            <<NSLog("Warning: Failed to fetch MGit metadata: " \o ErrorText(e))>>)
        EXCEPT !.pc = "config-mkdir"]

\* the error fetchMGitMetadata returns for an answer, NoErr for none
MetadataError(resp) ==
    IF resp.err # Nil THEN Wrap("error making request: ", <<resp.err>>)
    ELSE IF resp.status # StatusOK THEN StatusError(resp.status, Str(resp.body))
    ELSE IF ~DecodeMappings(resp.body).ok
         THEN Wrap("error parsing metadata response: ", <<"invalid character">>)
    ELSE NoErr

\* the call once the metadata request was sent and answered with resp
AfterMetadata(v, c0, resp) ==
    LET metadataURL == EndpointURL(v, c0.url, "metadata")
        c == Sent(Did(c0, "metadata"), Request(metadataURL, c0.token))
        e == MetadataError(resp)
    IN  IF e # NoErr THEN MetadataFailed(c, "metadata", e)
        ELSE [c EXCEPT !.pc = "mappings-mkdir",
                       !.body = resp.body,
                       !.mappings = DecodeMappings(resp.body).val]

\* fetchMGitMetadata: the request and the decoding of its answer
FetchMetadata(p) ==
    /\ call[p].pc = "metadata"
    /\ \E resp \in MetaResponses : Set(p, AfterMetadata(variant, call[p], resp))
    /\ UNCHANGED <<variant, fs, bridge, infoFailed>>

RECURSIVE MarshalCompact(_)
RECURSIVE MarshalCompactElems(_, _)
\* json.Marshal: no indentation
MarshalCompact(v) ==
    IF v.t = "null" THEN <<"n", "u", "l", "l">>
    ELSE IF v.t = "num" THEN v.v
    ELSE <<"[">> \o MarshalCompactElems(v.v, 1) \o <<"]">>

MarshalCompactElems(elems, i) ==
    IF i > Len(elems) THEN <<>>
    ELSE (IF i > 1 THEN <<",">> ELSE <<>>) \o MarshalCompact(elems[i])
         \o MarshalCompactElems(elems, i + 1)

\* a variant of MappingsJSON that serialises without indentation
MappingsJSONCompact(mappings) == Str(MarshalCompact(mappings))

\* what fetchMGitMetadata writes to both mapping files (json.MarshalIndent
\* cannot fail on a value that json decoded)
MappingsJSON(mappings) == Str(MarshalIndent(mappings))

\* the call once os.MkdirAll(mappingsDir) returned e; json.MarshalIndent
\* follows
AfterMappingsMkdir(c0, e) ==
    LET c == Did(c0, "mappings-mkdir")
    IN  IF e # Nil
        THEN MetadataFailed(c, "mappings-mkdir",
                 Wrap("error creating .mgit/mappings directory: ", <<e>>))
        ELSE [c EXCEPT !.pc = "write-hash",
                       !.mappingsJSON = MappingsJSON(c.mappings)]

\* fetchMGitMetadata: os.MkdirAll(mappingsDir), then json.MarshalIndent
MappingsMkdir(p) ==
    LET c == call[p]
    IN  /\ c.pc = "mappings-mkdir"
        /\ \E o \in MkdirAllOutcomes(fs, MappingsDir(c)) :
              /\ fs' = o.fs
              /\ Set(p, AfterMappingsMkdir(c, o.err))
        /\ UNCHANGED <<variant, bridge, infoFailed>>

\* the call once os.WriteFile(mappingsPath, mappingsJSON) returned e
AfterWriteHash(c0, e) ==
    LET c == Did(c0, "write-hash")
    IN  IF e # Nil
        THEN MetadataFailed(c, "write-hash",
                 Wrap("error writing hash_mappings.json file: ", <<e>>))
        ELSE [c EXCEPT !.pc = "write-nostr"]

\* fetchMGitMetadata: os.WriteFile(mappingsPath, mappingsJSON)
WriteHashMappings(p) ==
    LET c == call[p]
    IN  /\ c.pc = "write-hash"
        /\ \E o \in WriteFileOutcomes(fs, MappingsPath(c), c.mappingsJSON) :
              /\ fs' = o.fs
              /\ Set(p, AfterWriteHash(c, o.err))
        /\ UNCHANGED <<variant, bridge, infoFailed>>

\* the call once os.WriteFile(nostrMappingsPath, mappingsJSON) returned e
AfterWriteNostr(c0, e) ==
    LET c == Did(c0, "write-nostr")
    IN  IF e # Nil
        THEN MetadataFailed(c, "write-nostr",
                 Wrap("error writing nostr_mappings.json file: ", <<e>>))
        ELSE [Logged(c, <<NSLog("Successfully fetched and stored MGit metadata ("
                                \o Itoa(MappingsLen(c.mappings)) \o " mappings)")>>)
                 EXCEPT !.pc = "config-mkdir"]

\* fetchMGitMetadata: os.WriteFile(nostrMappingsPath, mappingsJSON)
WriteNostrMappings(p) ==
    LET c == call[p]
    IN  /\ c.pc = "write-nostr"
        /\ \E o \in WriteFileOutcomes(fs, NostrMappingsPath(c), c.mappingsJSON) :
              /\ fs' = o.fs
              /\ Set(p, AfterWriteNostr(c, o.err))
        /\ UNCHANGED <<variant, bridge, infoFailed>>

\* the call once os.MkdirAll(mgitDir) returned e
AfterConfigMkdir(c0, e) ==
    LET c == Did(c0, "config-mkdir")
    IN  IF e # Nil
        THEN CloneFailed(
                 FailedAt(c, "config-mkdir",
                          Wrap("error creating .mgit directory: ", <<e>>)),
                 Wrap("error setting up MGit config: ",
                      Wrap("error creating .mgit directory: ", <<e>>)))
        ELSE [c EXCEPT !.pc = "write-config"]

\* setupMGitConfig: os.MkdirAll(mgitDir)
ConfigMkdir(p) ==
    LET c == call[p]
    IN  /\ c.pc = "config-mkdir"
        /\ \E o \in MkdirAllOutcomes(fs, MGitDir(c)) :
              /\ fs' = o.fs
              /\ Set(p, AfterConfigMkdir(c, o.err))
        /\ UNCHANGED <<variant, bridge, infoFailed>>

\* the call once os.WriteFile(configPath, configContent) returned e; on
\* success cloneRepository returns nil and Clone fills in the result
AfterConfigWrite(c0, e) ==
    LET c == Did(c0, "write-config")
    IN  IF e # Nil
        THEN CloneFailed(
                 FailedAt(c, "write-config",
                          Wrap("error writing MGit config: ", <<e>>)),
                 Wrap("error setting up MGit config: ",
                      Wrap("error writing MGit config: ", <<e>>)))
        ELSE CloneSucceeded(
                 Logged(c, <<NSLog("MGit config created successfully"),
                             NSLog("Clone completed successfully")>>))

\* setupMGitConfig: os.WriteFile(configPath, configContent)
ConfigWrite(p) ==
    LET c == call[p]
    IN  /\ c.pc = "write-config"
        /\ \E o \in WriteFileOutcomes(fs, ConfigPath(c), ConfigContent(c.repoInfo)) :
              /\ fs' = o.fs
              /\ Set(p, AfterConfigWrite(c, o.err))
        /\ UNCHANGED <<variant, bridge, infoFailed>>

(***************************************************************************)
(* The other bridge functions.                                             *)
(***************************************************************************)
\* the values of the scaled-down machine integer
MinInt == -(2 ^ (IntBits - 1))
MaxInt == (2 ^ (IntBits - 1)) - 1
Ints == MinInt..MaxInt

\* a variant of AddInt that saturates instead of wrapping
AddIntSaturating(a, b) ==
    IF a + b > MaxInt THEN MaxInt ELSE IF a + b < MinInt THEN MinInt ELSE a + b

\* a + b of Go's int: two's complement, wrapping
AddInt(a, b) == ((a + b - MinInt) % (2 ^ IntBits)) + MinInt

SimpleAdd(a, b) ==
    /\ bridge' = [fn |-> "SimpleAdd", a |-> a, b |-> b, ret |-> AddInt(a, b)]
    /\ UNCHANGED <<variant, fs, call, infoFailed>>

getMGitHelpText ==
    "mgit - A go-git wrapper\n"
    \o "Usage: mgit <command> [args]\n"
    \o "Commands:\n"
    \o "  init                        Initialize a new repository\n"
    \o "  clone [-jwt <token>] <url>  Clone a repository\n"
    \o "  add <files...>              Add files to staging\n"
    \o "  commit -m <msg>             Commit staged changes\n"
    \o "  push                        Push commits to remote\n"
    \o "  pull                        Pull changes from remote\n"
    \o "  status                      Show repository status\n"
    \o "  branch                      List branches\n"
    \o "  branch <n>               Create a new branch\n"
    \o "  checkout <ref>              Checkout a branch or commit\n"
    \o "  log                         Show commit history\n"
    \o "  show [commit]               Show commit details and changes\n"
    \o "  config                      Get and set configuration values\n"
    \o "  verify                      Verify MGit commit chain integrity\n"

Help ==
    /\ bridge' = [fn |-> "Help", a |-> 0, b |-> 0, ret |-> getMGitHelpText]
    /\ UNCHANGED <<variant, fs, call, infoFailed>>

TestLogging ==
    /\ bridge' = [fn |-> "TestLogging", a |-> 0, b |-> 0,
                  ret |-> "Comprehensive logging test completed. Check console/logs for output."]
    /\ UNCHANGED <<variant, fs, call, infoFailed>>

(***************************************************************************)
(* The specifications.  Spec: the host issues Clone calls one after the    *)
(* other.  SpecLive: the host issues one Clone call, and every external    *)
(* operation the call starts returns.  SpecBridge: the host calls          *)
(* SimpleAdd, Help, TestLogging and Clone with an empty argument, in any   *)
(* order.                                                                  *)
(***************************************************************************)
Init ==
    /\ variant \in {1, 2}
    /\ fs \in InitialFS
    /\ call = [p \in Procs |-> NewCall(<<>>, "", "")]
    /\ bridge = [fn |-> "none", a |-> 0, b |-> 0, ret |-> 0]
    /\ infoFailed = {}

\* the host application's thread
Host == "host"

Next ==
    \/ \E url \in URLs, localPath \in LocalPaths, token \in Tokens :
          CloneBegin(Host, url, localPath, token)
    \/ CloneStat(Host)
    \/ MkdirDestination(Host)
    \/ FetchRepositoryInfo(Host)
    \/ GitCloneClean(Host)
    \/ GitClone(Host)
    \/ FetchMetadata(Host)
    \/ MappingsMkdir(Host)
    \/ WriteHashMappings(Host)
    \/ WriteNostrMappings(Host)
    \/ ConfigMkdir(Host)
    \/ ConfigWrite(Host)

Spec == Init /\ [][Next]_vars

\* a step of the call in progress: an external operation returns and the
\* thread runs on to the next one
HostStep ==
    \/ CloneStat(Host)
    \/ MkdirDestination(Host)
    \/ FetchRepositoryInfo(Host)
    \/ GitCloneClean(Host)
    \/ GitClone(Host)
    \/ FetchMetadata(Host)
    \/ MappingsMkdir(Host)
    \/ WriteHashMappings(Host)
    \/ WriteNostrMappings(Host)
    \/ ConfigMkdir(Host)
    \/ ConfigWrite(Host)

\* the host calls Clone once
FirstBegin ==
    /\ call[Host].pc = "idle"
    /\ \E url \in URLs, localPath \in LocalPaths, token \in Tokens :
          CloneBegin(Host, url, localPath, token)

NextLive ==
    \/ FirstBegin
    \/ HostStep

\* SpecLive: one call of Clone, every external operation of which returns
SpecLive == Init /\ [][NextLive]_vars /\ WF_vars(HostStep)

RejectedBegin ==
    \E url \in URLs, localPath \in LocalPaths, token \in Tokens :
        /\ ValidationMessage(url, localPath, token) # ""
        /\ CloneBegin(Host, url, localPath, token)

NextBridge ==
    \/ \E a \in Ints, b \in Ints : SimpleAdd(a, b)
    \/ Help
    \/ TestLogging
    \/ RejectedBegin

SpecBridge == Init /\ [][NextBridge]_vars

(***************************************************************************)
(* SpecURL: the URL helpers applied to one URL.  The URL is drawn in       *)
(* InitURL from the strings made of at most MaxParts parts; a part is a    *)
(* "/", a ".", the suffix ".git" or a letter.                              *)
(***************************************************************************)
URLParts == {<<"/">>, <<".">>, DotGit, <<"h">>, <<"r">>}

RECURSIVE URLStrings(_)
URLStrings(n) ==
    IF n = 0 THEN {<<>>}
    ELSE LET shorter == URLStrings(n - 1)
         IN  shorter \cup {s \o part : s \in shorter, part \in URLParts}

InitURL ==
    /\ variant \in {1, 2}
    /\ fs = EmptyFS
    /\ call = [p \in Procs |-> NewCall(<<>>, "", "")]
    /\ bridge \in {[fn |-> "url", a |-> url, b |-> 0, ret |-> 0] :
                     url \in URLStrings(MaxParts)}
    /\ infoFailed = {}

CallExtractRepoID ==
    /\ bridge.fn = "url"
    /\ bridge' = [bridge EXCEPT !.fn = "extractRepoID",
                                !.ret = extractRepoID(bridge.a)]
    /\ UNCHANGED <<variant, fs, call, infoFailed>>

CallExtractServerBaseURL ==
    /\ bridge.fn = "url"
    /\ bridge' = [bridge EXCEPT !.fn = "extractServerBaseURL",
                                !.ret = extractServerBaseURL(bridge.a)]
    /\ UNCHANGED <<variant, fs, call, infoFailed>>

NextURL ==
    \/ CallExtractRepoID
    \/ CallExtractServerBaseURL

SpecURL == InitURL /\ [][NextURL]_vars

(***************************************************************************)
(* SpecConc: two threads of the host call Clone once each, for the same    *)
(* repository and the same local path, their steps interleaved in any      *)
(* order.  Clone takes no lock and shares nothing but the filesystem.  The  *)
(* server answers both about the one repository: when it answers with its  *)
(* data, that is the info of "r" and the mappings [1].                     *)
(***************************************************************************)
ConcurrentBegin(p) ==
    /\ call[p].pc = "idle"
    /\ CloneBegin(p, <<"h", "/", "r">>, "a", "t1")

ConcurrentFetchRepositoryInfo(p) ==
    /\ FetchRepositoryInfo(p)
    /\ call'[p].infoResp.obj.ID \in {NoInfo.ID, "r"}

ConcurrentFetchMetadata(p) ==
    /\ FetchMetadata(p)
    /\ call'[p].body \in {<<>>, <<"[", "1", "]">>}

NextConc ==
    \E p \in Procs :
        \/ ConcurrentBegin(p)
        \/ CloneStat(p)
        \/ MkdirDestination(p)
        \/ ConcurrentFetchRepositoryInfo(p)
        \/ GitCloneClean(p)
        \/ GitClone(p)
        \/ ConcurrentFetchMetadata(p)
        \/ MappingsMkdir(p)
        \/ WriteHashMappings(p)
        \/ WriteNostrMappings(p)
        \/ ConfigMkdir(p)
        \/ ConfigWrite(p)

SpecConc == Init /\ [][NextConc]_vars

(***************************************************************************)
(* SpecPair: two runs of Clone side by side, for comparing what they log.  *)
(* The two calls get the same url and localPath, each its own token, and   *)
(* every external operation returns the same to both: the same error from  *)
(* the operating system, the same answer from the server.  fs is the       *)
(* filesystem of either run.  A step is taken by every call at its          *)
(* position; a call that has returned waits for the other.                 *)
(***************************************************************************)
\* some call is at position pcv
Some(pcv) == \E p \in Procs : call[p].pc = pcv

\* a call that is at position pcv
At(pcv) == call[CHOOSE p \in Procs : call[p].pc = pcv]

PairBegin ==
    /\ \A p \in Procs : call[p].pc \in {"idle", "done"}
    /\ \E url \in URLs, localPath \in LocalPaths, token \in [Procs -> Tokens] :
          call' = [p \in Procs |-> Entered(url, localPath, token[p])]
    /\ UNCHANGED <<variant, fs, bridge, infoFailed>>

PairStat ==
    /\ Some("stat")
    /\ \E e \in StatOutcomes(fs, Destination(At("stat"))) :
          call' = [p \in Procs |->
                      IF call[p].pc = "stat"
                      THEN AfterStat(call[p], e)
                      ELSE call[p]]
    /\ UNCHANGED <<variant, fs, bridge, infoFailed>>

PairMkdir ==
    /\ Some("mkdir")
    /\ \E o \in MkdirAllOutcomes(fs, Destination(At("mkdir"))) :
          /\ fs' = o.fs
          /\ call' = [p \in Procs |->
                      IF call[p].pc = "mkdir"
                      THEN AfterMkdir(call[p], o.err)
                      ELSE call[p]]
    /\ UNCHANGED <<variant, bridge, infoFailed>>

PairInfo ==
    /\ Some("info")
    /\ \E resp \in InfoResponses :
          /\ call' = [p \in Procs |->
                      IF call[p].pc = "info"
                      THEN InfoReturned(variant, InfoRequested(variant, call[p]), resp)
                      ELSE call[p]]
          /\ infoFailed' = IF InfoError(resp) # NoErr
                           THEN infoFailed \cup {At("info").localPath} ELSE infoFailed
    /\ UNCHANGED <<variant, fs, bridge>>

PairClean ==
    /\ Some("clean")
    /\ variant = 1
    /\ \E o \in RemoveAllOutcomes(fs, Destination(At("clean"))) :
          /\ fs' = o.fs
          /\ call' = [p \in Procs |->
                      IF call[p].pc = "clean"
                      THEN AfterClean(call[p], o.err)
                      ELSE call[p]]
    /\ UNCHANGED <<variant, bridge, infoFailed>>

PairGitClone ==
    /\ Some("gitclone")
    /\ \E o \in PlainCloneOutcomes(fs, Destination(At("gitclone"))) :
          /\ fs' = o.fs
          /\ call' = [p \in Procs |->
                      IF call[p].pc = "gitclone"
                      THEN AfterGitClone(variant, call[p], o.err)
                      ELSE call[p]]
    /\ UNCHANGED <<variant, bridge, infoFailed>>

PairMetadata ==
    /\ Some("metadata")
    /\ \E resp \in MetaResponses :
          call' = [p \in Procs |->
                      IF call[p].pc = "metadata"
                      THEN AfterMetadata(variant, call[p], resp)
                      ELSE call[p]]
    /\ UNCHANGED <<variant, fs, bridge, infoFailed>>

PairMappingsMkdir ==
    /\ Some("mappings-mkdir")
    /\ \E o \in MkdirAllOutcomes(fs, MappingsDir(At("mappings-mkdir"))) :
          /\ fs' = o.fs
          /\ call' = [p \in Procs |->
                      IF call[p].pc = "mappings-mkdir"
                      THEN AfterMappingsMkdir(call[p], o.err)
                      ELSE call[p]]
    /\ UNCHANGED <<variant, bridge, infoFailed>>

PairWriteHash ==
    /\ Some("write-hash")
    /\ \E o \in WriteFileOutcomes(fs, MappingsPath(At("write-hash")),
                                 At("write-hash").mappingsJSON) :
          /\ fs' = o.fs
          /\ call' = [p \in Procs |->
                      IF call[p].pc = "write-hash"
                      THEN AfterWriteHash(call[p], o.err)
                      ELSE call[p]]
    /\ UNCHANGED <<variant, bridge, infoFailed>>

PairWriteNostr ==
    /\ Some("write-nostr")
    /\ \E o \in WriteFileOutcomes(fs, NostrMappingsPath(At("write-nostr")),
                                 At("write-nostr").mappingsJSON) :
          /\ fs' = o.fs
          /\ call' = [p \in Procs |->
                      IF call[p].pc = "write-nostr"
                      THEN AfterWriteNostr(call[p], o.err)
                      ELSE call[p]]
    /\ UNCHANGED <<variant, bridge, infoFailed>>

PairConfigMkdir ==
    /\ Some("config-mkdir")
    /\ \E o \in MkdirAllOutcomes(fs, MGitDir(At("config-mkdir"))) :
          /\ fs' = o.fs
          /\ call' = [p \in Procs |->
                      IF call[p].pc = "config-mkdir"
                      THEN AfterConfigMkdir(call[p], o.err)
                      ELSE call[p]]
    /\ UNCHANGED <<variant, bridge, infoFailed>>

PairConfigWrite ==
    /\ Some("write-config")
    /\ \E o \in WriteFileOutcomes(fs, ConfigPath(At("write-config")),
                                 ConfigContent(At("write-config").repoInfo)) :
          /\ fs' = o.fs
          /\ call' = [p \in Procs |->
                      IF call[p].pc = "write-config"
                      THEN AfterConfigWrite(call[p], o.err)
                      ELSE call[p]]
    /\ UNCHANGED <<variant, bridge, infoFailed>>

NextPair ==
    \/ PairBegin
    \/ PairStat
    \/ PairMkdir
    \/ PairInfo
    \/ PairClean
    \/ PairGitClone
    \/ PairMetadata
    \/ PairMappingsMkdir
    \/ PairWriteHash
    \/ PairWriteNostr
    \/ PairConfigMkdir
    \/ PairConfigWrite

SpecPair == Init /\ [][NextPair]_vars

(***************************************************************************)
(* The properties.                                                         *)
(***************************************************************************)
Range(seq) == {seq[i] : i \in DOMAIN seq}

Returned(c) == c.pc = "done"

\* C1: a Clone call with an empty url, localPath or token returns at once
\* with Success = false and the message of the first empty argument in the
\* order url, localPath, token; it issues no HTTP request, performs no
\* external operation and leaves the filesystem as it is.
C1_EmptyArgumentRejected ==
    [][\A p \in Procs :
         ( /\ call[p].pc \in {"idle", "done"}
           /\ call'[p] # call[p]
           /\ \/ call'[p].url = <<>>
              \/ call'[p].localPath = ""
              \/ call'[p].token = "" )
         => /\ call'[p].pc = "done"
            /\ call'[p].result.Success = FALSE
            /\ call'[p].result.Message =
                  (IF call'[p].url = <<>> THEN "Repository URL cannot be empty"
                   ELSE IF call'[p].localPath = "" THEN "Local path cannot be empty"
                   ELSE "Authentication token cannot be empty")
            /\ call'[p].reqs = <<>>
            /\ call'[p].trace = <<>>
            /\ fs' = fs]_vars

\* C1 witness: a call with a url, no path and no token was rejected for its
\* path, on a filesystem that is not empty.
C1_Witness ==
    /\ Returned(call[Host])
    /\ call[Host].url # <<>>
    /\ call[Host].localPath = ""
    /\ call[Host].token = ""
    /\ call[Host].result.Message = "Local path cannot be empty"
    /\ fs # EmptyFS

\* C2: with three non-empty arguments and localPath existing when Clone
\* looks, the call returns Success = false with "Destination path already
\* exists: <localPath>", having issued no HTTP request and changed nothing
\* in the filesystem.
C2_ExistingDestinationRejected ==
    [][\A p \in Procs :
         ( /\ call[p].pc = "stat"
           /\ Exists(fs, <<call[p].localPath>>)
           /\ call'[p] # call[p] )
         => /\ call'[p].pc = "done"
            /\ call'[p].result.Success = FALSE
            /\ call'[p].result.Message =
                  "Destination path already exists: " \o call[p].localPath
            /\ call'[p].reqs = <<>>
            /\ fs' = fs]_vars

\* C2 witness: a call was rejected for its existing destination, and the
\* host's file below the destination is still there.
C2_Witness ==
    /\ Returned(call[Host])
    /\ call[Host].result.Message = "Destination path already exists: a"
    /\ IsFile(fs, <<"a", "notes.txt">>)
    /\ fs[<<"a", "notes.txt">>].data = "host data"

\* the metadata request of call c was answered with status 200 and both
\* mapping files were written
MappingsWritten(c) ==
    /\ c.pc \in {"config-mkdir", "write-config", "done"}
    /\ "write-nostr" \in Range(c.trace)
    /\ \A i \in DOMAIN c.failures :
          c.failures[i].step \notin {"write-hash", "write-nostr"}

\* C3, as stated: once the mapping files are written, each holds the body of
\* the metadata answer byte for byte.
C3_BytePassthrough ==
    \A p \in Procs :
        MappingsWritten(call[p])
        => /\ IsFile(fs, MappingsPath(call[p]))
           /\ IsFile(fs, NostrMappingsPath(call[p]))
           /\ fs[MappingsPath(call[p])].data = Str(call[p].body)
           /\ fs[NostrMappingsPath(call[p])].data = Str(call[p].body)

\* C3, amended: once the mapping files are written, both hold the same
\* bytes: the serialisation, indented by two spaces, of the value decoded
\* from the body of the metadata answer.
C3_ReserialisedMappings ==
    \A p \in Procs :
        MappingsWritten(call[p])
        => /\ IsFile(fs, MappingsPath(call[p]))
           /\ IsFile(fs, NostrMappingsPath(call[p]))
           /\ DecodeMappings(call[p].body).ok
           /\ fs[MappingsPath(call[p])].data =
                 Str(MarshalIndent(DecodeMappings(call[p].body).val))
           /\ fs[NostrMappingsPath(call[p])].data = fs[MappingsPath(call[p])].data

\* C3 witness: the files were written for the body "[1,11]" and a newline,
\* and hold the indented form, which is not the body.
C3_Witness ==
    /\ MappingsWritten(call[Host])
    /\ call[Host].body = <<"[", "1", ",", "1", "1", "]", "\n">>
    /\ fs[MappingsPath(call[Host])].data = "[\n  1,\n  11\n]"
    /\ fs[NostrMappingsPath(call[Host])].data = "[\n  1,\n  11\n]"

\* the steps C4 names, in its order
StepRank(step) ==
    CASE step = "info" -> 1
      [] step = "gitclone" -> 2
      [] step = "metadata" -> 3
      [] step = "write-hash" -> 4
      [] step = "write-nostr" -> 5
      [] step = "write-config" -> 6
      [] OTHER -> 0

IsNamedStep(step) == StepRank(step) > 0

\* C4: within a call the steps repo-info GET, git clone, metadata GET, write
\* of hash_mappings.json, write of nostr_mappings.json, write of .mgit/config
\* happen in this order and each at most once; each HTTP request that was
\* issued belongs to one GET step.
C4_StepsInOrderOnce ==
    \A p \in Procs :
        LET steps == SelectSeq(call[p].trace, IsNamedStep)
        IN  /\ \A i, j \in DOMAIN steps :
                  i < j => StepRank(steps[i]) < StepRank(steps[j])
            /\ Len(call[p].reqs) =
                  Cardinality({i \in DOMAIN steps : steps[i] \in {"info", "metadata"}})

\* C4 witness: a call returned success having performed all six steps.
C4_Witness ==
    /\ Returned(call[Host])
    /\ call[Host].result.Success
    /\ SelectSeq(call[Host].trace, IsNamedStep) =
          <<"info", "gitclone", "metadata", "write-hash", "write-nostr", "write-config">>

MetadataSteps == {"metadata", "mappings-mkdir", "write-hash", "write-nostr"}

\* the failure f of a step of call c reached the caller: the call failed with
\* the step's error, wrapped once, as its message after "Clone failed: "
Propagated(c, f) ==
    /\ c.result.Success = FALSE
    /\ c.err # NoErr
    /\ Tail(c.err) = f.err
    /\ c.result.Message = "Clone failed: " \o ErrorText(c.err)

\* C5, as stated: whichever step of the flow failed, the call returns
\* Success = false with the step's error after "Clone failed: ".
C5_EveryFailurePropagated ==
    \A p \in Procs :
        Returned(call[p])
        => \A i \in DOMAIN call[p].failures :
              Propagated(call[p], call[p].failures[i])

\* C5, amended: when creating the destination directory, the repo-info
\* request, the git clone or the config write fails, the call returns
\* Success = false with that error after "Clone failed: ".
C5_FatalFailurePropagated ==
    \A p \in Procs :
        Returned(call[p])
        => \A i \in DOMAIN call[p].failures :
              call[p].failures[i].step \notin MetadataSteps
              => Propagated(call[p], call[p].failures[i])

\* C5 witness: a call whose config write failed has returned.
C5_Witness ==
    /\ Returned(call[Host])
    /\ \E i \in DOMAIN call[Host].failures :
          call[Host].failures[i].step = "write-config"
    /\ call[Host].result.Message =
          "Clone failed: error setting up MGit config: error writing MGit config: permission denied"

\* C6: the first request of a call is a GET of {base}/api/mgit/repos/{id}/info
\* and the second a GET of {base}/api/mgit/repos/{id}/metadata, with id =
\* extractRepoID(url) and base = extractServerBaseURL(url), both with the
\* header Authorization: Bearer <token> of the call's token.
C6_RequestsAddressTheApi ==
    \A p \in Procs :
        \A i \in DOMAIN call[p].reqs :
            /\ call[p].reqs[i].method = "GET"
            /\ call[p].reqs[i].Authorization = "Bearer " \o call[p].token
            /\ call[p].reqs[i].url =
                  Str(extractServerBaseURL(call[p].url)) \o "/api/mgit/repos/"
                  \o Str(extractRepoID(call[p].url))
                  \o (IF i = 1 THEN "/info" ELSE "/metadata")

\* C7: a destination whose call failed at the repo-info request stays in the
\* filesystem; every later call for it is turned away at validation or at
\* the destination check, and one with non-empty arguments is rejected with
\* "Destination path already exists"; none of them issues a request.
C7_NoCleanupAfterInfoFailure ==
    [][/\ \A localPath \in infoFailed' : Exists(fs', <<localPath>>)
       /\ \A p \in Procs :
            ( /\ call[p].pc \in {"idle", "done"}
              /\ call'[p] # call[p]
              /\ call'[p].localPath \in infoFailed )
            => /\ call'[p].reqs = <<>>
               /\ call'[p].result.Success = FALSE
               /\ \/ call'[p].pc = "done"
                  \/ /\ call'[p].pc = "stat"
                     /\ call'[p].url # <<>>
                     /\ call'[p].token # ""
       /\ \A p \in Procs :
            ( /\ call[p].pc = "stat"
              /\ call[p].localPath \in infoFailed
              /\ call'[p] # call[p] )
            => /\ call'[p].pc = "done"
               /\ call'[p].result.Success = FALSE
               /\ call'[p].result.Message =
                     "Destination path already exists: " \o call[p].localPath
               /\ call'[p].reqs = <<>>]_vars

\* C7 witness: after a call for "a" failed at repo-info, a later call for "a"
\* was rejected; the directory is the one the failed call made.
C7_Witness ==
    /\ "a" \in infoFailed
    /\ Returned(call[Host])
    /\ call[Host].localPath = "a"
    /\ call[Host].result.Message = "Destination path already exists: a"
    /\ DOMAIN fs = {<<"a">>}

\* C8: a call that returned Success = true had status 200 and parsable JSON
\* from repo-info, its git clone succeeded, and <localPath>/.mgit/config holds
\* the id, name and access of the repo-info answer and the [mgit] section.
C8_SuccessMeansClonedAndConfigured ==
    \A p \in Procs :
        (Returned(call[p]) /\ call[p].result.Success)
        => /\ call[p].infoResp.err = Nil
           /\ call[p].infoResp.status = 200
           /\ call[p].infoResp.json
           /\ "gitclone" \in Range(call[p].trace)
           /\ \A i \in DOMAIN call[p].failures : call[p].failures[i].step # "gitclone"
           /\ IsDir(fs, <<call[p].localPath, ".git">>)
           /\ IsFile(fs, <<call[p].localPath, ".mgit", "config">>)
           /\ fs[<<call[p].localPath, ".mgit", "config">>].data =
                 "[repository]\n\tid = " \o call[p].infoResp.obj.ID
                 \o "\n\tname = " \o call[p].infoResp.obj.Name
                 \o "\n\taccess = " \o call[p].infoResp.obj.Access
                 \o "\n\n[mgit]\n\tversion = 1.0\n\tinitialized = true\n"

\* C8 witness: a call returned success for a repository whose id on the
\* server is not the id in the URL.
C8_Witness ==
    /\ Returned(call[Host])
    /\ call[Host].result.Success
    /\ call[Host].infoResp.obj.ID = "x9"
    /\ Str(extractRepoID(call[Host].url)) = "r"

\* C9: a returned CloneResult has LocalPath = localPath; with Success = false
\* RepoID and RepoName are empty and Message is not; with Success = true
\* Message is "Repository cloned successfully" and RepoID and RepoName are
\* extractRepoID(url).
C9_ResultShape ==
    \A p \in Procs :
        Returned(call[p])
        => LET r == call[p].result
           IN  /\ r.LocalPath = call[p].localPath
               /\ ~r.Success => (r.RepoID = "" /\ r.RepoName = "" /\ r.Message # "")
               /\ r.Success => /\ r.Message = "Repository cloned successfully"
                               /\ r.RepoID = Str(extractRepoID(call[p].url))
                               /\ r.RepoName = Str(extractRepoID(call[p].url))

\* C9 witness: a call for h/r.git returned success with RepoName "r" while
\* the server named the repository "other".
C9_Witness ==
    /\ Returned(call[Host])
    /\ call[Host].result.Success
    /\ call[Host].url = <<"h", "/", "r", ".", "g", "i", "t">>
    /\ call[Host].result.RepoName = "r"
    /\ call[Host].repoInfo.Name = "other"

\* C10: whatever was called before, SimpleAdd(a, b) returns a machine
\* integer congruent to a + b modulo 2^IntBits.
C10_SimpleAddWraps ==
    bridge.fn = "SimpleAdd"
    => /\ bridge.ret \in Ints
       /\ (bridge.ret - (bridge.a + bridge.b)) % (2 ^ IntBits) = 0

\* C10 witness: after a Clone call has returned, SimpleAdd overflowed: two
\* positive arguments, a negative sum.
C10_Witness ==
    /\ Returned(call[Host])
    /\ bridge.fn = "SimpleAdd"
    /\ bridge.a > 0
    /\ bridge.b > 0
    /\ bridge.a + bridge.b > MaxInt
    /\ bridge.ret < 0

ConfigSteps == {"config-mkdir", "write-config"}

FailedSteps(c) == {c.failures[i].step : i \in DOMAIN c.failures}

\* C11: a failure of the metadata step (the request, the status, the
\* decoding, the creation of the mappings directory or the write of either
\* mapping file) does not end the call: setupMGitConfig runs next, the config
\* write is attempted once .mgit is there, and the call returns Success =
\* true exactly when setupMGitConfig succeeds, .mgit/config then holding the
\* configuration; a failed call reports the configuration's error.
C11_MetadataFailureNotFatal ==
    \A p \in Procs :
        LET c == call[p]
        IN  (FailedSteps(c) \cap MetadataSteps # {})
            => /\ c.pc \in {"config-mkdir", "write-config", "done"}
               /\ Returned(c)
                  => /\ "config-mkdir" \in Range(c.trace)
                     /\ "config-mkdir" \notin FailedSteps(c)
                           => "write-config" \in Range(c.trace)
                     /\ c.result.Success <=> (FailedSteps(c) \cap ConfigSteps = {})
                     /\ c.result.Success
                           => /\ IsFile(fs, ConfigPath(c))
                              /\ fs[ConfigPath(c)].data = ConfigContent(c.infoResp.obj)
                     /\ ~c.result.Success
                           => Head(c.err) = "error setting up MGit config: "

\* C11 witness: a call whose write of nostr_mappings.json failed returned
\* Success = true with its config written.
C11_Witness ==
    /\ Returned(call[Host])
    /\ call[Host].result.Success
    /\ "write-nostr" \in FailedSteps(call[Host])
    /\ IsFile(fs, ConfigPath(call[Host]))

\* C12: a call whose repo-info request failed (transport error, a status
\* other than 200, or a body that is not JSON) has returned Success = false
\* with the request's error; it made that one request and nothing after it:
\* no git clone, no metadata request, no write; nothing exists under
\* <localPath>/.mgit.
C12_InfoFailureStopsTheCall ==
    \A p \in Procs :
        LET c == call[p]
        IN  "info" \in FailedSteps(c)
            => /\ Returned(c)
               /\ c.result.Success = FALSE
               /\ c.err = Wrap("error fetching repository metadata: ", InfoError(c.infoResp))
               /\ c.result.Message = "Clone failed: " \o ErrorText(c.err)
               /\ c.trace = <<"mkdir", "info">>
               /\ Len(c.reqs) = 1
               /\ \A q \in DOMAIN fs : ~IsPrefix(MGitDir(c), q)

\* C12 witness: a call returned after a repo-info answer of status 200 whose
\* body is not JSON; its destination directory is all there is.
C12_Witness ==
    /\ Returned(call[Host])
    /\ "info" \in FailedSteps(call[Host])
    /\ call[Host].infoResp.status = StatusOK
    /\ ~call[Host].infoResp.json
    /\ DOMAIN fs = {Destination(call[Host])}

\* C13: for a call that got past the destination check, in every state: if
\* .mgit/nostr_mappings.json exists then .mgit/mappings/hash_mappings.json
\* exists and both hold the same content; neither exists unless the call's
\* metadata request was answered with status 200 and a body that decoded.
C13_MappingFilesConsistent ==
    \A p \in Procs :
        LET c == call[p]
        IN  c.trace # <<>>
            => /\ Exists(fs, NostrMappingsPath(c))
                  => /\ IsFile(fs, NostrMappingsPath(c))
                     /\ IsFile(fs, MappingsPath(c))
                     /\ fs[NostrMappingsPath(c)].data = fs[MappingsPath(c)].data
               /\ (Exists(fs, NostrMappingsPath(c)) \/ Exists(fs, MappingsPath(c)))
                  => /\ "metadata" \in Range(c.trace)
                     /\ "metadata" \notin FailedSteps(c)
                     /\ DecodeMappings(c.body).ok

NoSlash(s) == \A i \in DOMAIN s : s[i] # "/"

\* the three forms of the URL of repository R on the server at B
FormsOf(B, R) ==
    { B \o <<"/">> \o R,
      B \o <<"/">> \o R \o <<"/">>,
      B \o <<"/">> \o R \o DotGit }

\* the ways to read url as one of the forms: the pairs <<B, R>>
ReadingsOf(url) ==
    { br \in { <<SubSeq(url, 1, i), SubSeq(url, i + 2, j)>> :
                  i \in 0..Len(url), j \in 0..Len(url) } :
         url \in FormsOf(br[1], br[2]) }

\* a repository ID as C14 takes it: not empty, without "/"
IsSegment(R) == R # <<>> /\ NoSlash(R)

\* a repository ID that does not itself end in ".git"
IsRepoID(R) == IsSegment(R) /\ ~HasSuffix(R, DotGit)

\* C14: extractServerBaseURL(url) is B for a url of the form B/R, B/R/ or
\* B/R.git, R a repository ID (not empty, without "/", not ending in ".git").
C14_BaseOfEveryForm ==
    bridge.fn = "extractServerBaseURL"
    => \A br \in ReadingsOf(bridge.a) :
          IsRepoID(br[2]) => bridge.ret = br[1]

\* s without one trailing suffix, if it ends in it
WithoutTrailing(s, suffix) ==
    IF HasSuffix(s, suffix) THEN SubSeq(s, 1, Len(s) - Len(suffix)) ELSE s

\* id is the last "/"-separated segment of s: it has no "/", s ends in it,
\* and what precedes it in s, if anything, ends in "/"
IsLastSegmentOf(id, s) ==
    /\ NoSlash(id)
    /\ HasSuffix(s, id)
    /\ Len(id) = Len(s) \/ s[Len(s) - Len(id)] = "/"

\* C15, as stated: extractRepoID(url) is the last segment of url without one
\* trailing "/" and then without one trailing ".git", and it is R for every
\* way to read url as B/R, B/R/ or B/R.git with R not empty and without "/".
C15_SegmentAndEveryForm ==
    bridge.fn = "extractRepoID"
    => /\ IsLastSegmentOf(bridge.ret,
              WithoutTrailing(WithoutTrailing(bridge.a, <<"/">>), DotGit))
       /\ \A br \in ReadingsOf(bridge.a) :
             IsSegment(br[2]) => bridge.ret = br[2]

\* C15, amended: extractRepoID(url) is the last segment of url without one
\* trailing "/" and then without one trailing ".git"; it is R for every way
\* to read url as B/R, B/R/ or B/R.git with R not empty, without "/" and not
\* itself ending in ".git".
C15_SegmentAndRepoIDForm ==
    bridge.fn = "extractRepoID"
    => /\ IsLastSegmentOf(bridge.ret,
              WithoutTrailing(WithoutTrailing(bridge.a, <<"/">>), DotGit))
       /\ \A br \in ReadingsOf(bridge.a) :
             IsRepoID(br[2]) => bridge.ret = br[2]

\* C15 witness: extractRepoID was applied to "h/r.git", which reads as
\* B/R.git with R = "r", and gave "r".
C15_Witness ==
    /\ bridge.fn = "extractRepoID"
    /\ bridge.a = <<"h", "/", "r">> \o DotGit
    /\ <<<<"h">>, <<"r">>>> \in ReadingsOf(bridge.a)
    /\ bridge.ret = <<"r">>

\* the call is past the destination check and has not returned
InFlow(c) == c.pc \notin {"idle", "stat", "done"}

\* C16: of two calls for the same local path at most one at a time is past
\* the destination check; while one is, the check of the other ends in
\* "Destination path already exists"; and no step removes a cloned
\* repository or a file that is there, or changes a file's content.
C16_OneCloneAtATime ==
    [][/\ Cardinality({p \in Procs : InFlow(call'[p])}) <= 1
       /\ \A p \in Procs :
             ( /\ call[p].pc = "stat"
               /\ call'[p] # call[p]
               /\ \E q \in Procs \ {p} : InFlow(call[q]) )
             => /\ Returned(call'[p])
                /\ call'[p].result.Message =
                      "Destination path already exists: " \o call[p].localPath
       /\ \A q \in DOMAIN fs :
             (IsFile(fs, q) \/ q[Len(q)] = ".git")
             => (q \in DOMAIN fs' /\ fs'[q] = fs[q])]_vars

\* C17, as stated: two calls that differ in the token only and get the same
\* from every external operation have logged the same lines once both have
\* returned.
C17_SameLogForAnyTokens ==
    (\A p \in Procs : Returned(call[p]))
    => call[Host].log = call["other"].log

\* C17, amended: two calls that differ only in the value of a token that is
\* not empty (or have both the empty token) and get the same from every
\* external operation have logged the same lines, at every moment.
C17_SameLogForNonEmptyTokens ==
    ( /\ call[Host].url = call["other"].url
      /\ call[Host].localPath = call["other"].localPath
      /\ call[Host].token = "" <=> call["other"].token = "" )
    => call[Host].log = call["other"].log

\* C17 witness: two calls with the tokens t1 and t2 returned success; they
\* sent different requests and logged the same lines.
C17_Witness ==
    /\ \A p \in Procs : Returned(call[p]) /\ call[p].result.Success
    /\ call[Host].token = "t1"
    /\ call["other"].token = "t2"
    /\ call[Host].reqs # call["other"].reqs
    /\ call[Host].log = call["other"].log
    /\ call[Host].log # <<>>

\* C18: a call performs no external operation twice, and every call that
\* has been entered returns, given that each external operation it starts
\* returns, whatever it returns.
C18_EveryCallReturns ==
    /\ [](\A i, j \in DOMAIN call[Host].trace :
             i # j => call[Host].trace[i] # call[Host].trace[j])
    /\ (call[Host].pc \notin {"idle", "done"}) ~> Returned(call[Host])

\* C18 witness: a call of the flow with os.RemoveAll returned after all ten
\* of its external operations, the metadata step having failed on the way.
C18_Witness ==
    /\ variant = 1
    /\ Returned(call[Host])
    /\ call[Host].trace =
          <<"mkdir", "info", "clean", "gitclone", "metadata", "mappings-mkdir",
            "write-hash", "write-nostr", "config-mkdir", "write-config">>
    /\ FailedSteps(call[Host]) = {"write-nostr", "write-config"}

====
